---- MODULE Spec2Model ----
(***************************************************************************)
(* arrayfire_serde: serde serialization and deserialization of             *)
(* arrayfire::Dim4, arrayfire::DType and arrayfire::Array (src/lib.rs).    *)
(*                                                                         *)
(* The wire is the token stream of a self-describing serde format, as in   *)
(* tests/tests.rs: a scalar token carries its representation and its       *)
(* value, a tuple or sequence token carries its items.                     *)
(***************************************************************************)
EXTENDS Integers, Sequences, FiniteSets, TLC

\* ------------------------------------------------------------------ bounds
\* largest extent of an axis of a tensor, and of a shape on the wire
MaxExtent == 2
\* largest number of elements of a tensor, and of an element sequence on the wire
MaxElems == 4

\* ------------------------------------------------------------ u64 values
\* A u64 is held as two parts, value = hi * 2^31 + lo with 0 <= lo < 2^31,
\* so that values of 2^32 and more stay representable.
U64Of(n) == [hi |-> 0, lo |-> n]

IsSmall(x) == x.hi = 0

\* `value as i32` (lib.rs:228): keep the low 32 bits, read them as signed.
AsI32(x) == IF x.hi % 2 = 1 THEN (x.lo - 2147483647) - 1 ELSE x.lo

\* `i32::from(value)` for a u8 (lib.rs:220): value preserving.
I32FromU8(v) == v

\* ---------------------------------------------------------------- tokens
\* an Option: None is the empty sequence, Some(v) holds v
None == << >>

Some(v) == << v >>

\* a scalar token: its representation and its value; the value of a u64, of a
\* bool and of a string each has a field of its own
Tok(t, v) == [t |-> t, v |-> v]

TokU64(x) == [t |-> "U64", w |-> x]

TokBool(b) == [t |-> "Bool", b |-> b]

TokStr(s) == [t |-> "Str", s |-> s]

Tuple(items) == [t |-> "Tuple", items |-> items]

SeqTok(items) == [t |-> "Seq", items |-> items]

IsCompound(f) == f.t \in {"Tuple", "Seq"}

\* ------------------------------------------------------------ arrayfire::DType
DTypes == {"F32", "C32", "F64", "C64", "B8", "S32", "U32", "U8", "S64", "U64", "S16", "U16"}

\* the nine arms of the two matches on dtype (lib.rs:260-268, 303-311)
Supported == {"F32", "F64", "S16", "S32", "S64", "U16", "U32", "U64", "B8"}

Complex == {"C32", "C64"}

\* the integer value of each enum member, the value `as u8` and transmute see
DiscriminantSwapped(d) ==
    CASE d = "F32" -> 0 [] d = "F64" -> 1 [] d = "C32" -> 2 [] d = "C64" -> 3
      [] d = "B8" -> 4 [] d = "S32" -> 5 [] d = "U32" -> 6 [] d = "U8" -> 7
      [] d = "S64" -> 8 [] d = "U64" -> 9 [] d = "S16" -> 10 [] d = "U16" -> 11

Discriminant(d) ==
    CASE d = "F32" -> 0 [] d = "C32" -> 1 [] d = "F64" -> 2 [] d = "C64" -> 3
      [] d = "B8" -> 4 [] d = "S32" -> 5 [] d = "U32" -> 6 [] d = "U8" -> 7
      [] d = "S64" -> 8 [] d = "U64" -> 9 [] d = "S16" -> 10 [] d = "U16" -> 11

\* A DType value in memory is its 32-bit pattern: transmute (lib.rs:220, 228)
\* installs the pattern unchecked, so a value may name no member at all.
IsMember(bits) == \E d \in DTypes : Discriminant(d) = bits

MemberOf(bits) == CHOOSE d \in DTypes : Discriminant(d) = bits

\* `*self.0 as u8` (lib.rs:197)
AsU8(bits) == bits % 256

\* ------------------------------------------------------------ Ser<DType>
SerDType(d) == Tok("U8", AsU8(Discriminant(d)))

\* ------------------------------------------------------------ De<DType>
Ok(v) == [st |-> "ok", val |-> v]

Err(e) == [st |-> "err", val |-> e]

Panic(m) == [st |-> "panic", val |-> m]

Crash == [st |-> "crash", val |-> "undefined behaviour"]

NoResult == [st |-> "none", val |-> None]

visit_u8Shifted(value) == Ok(I32FromU8(value) + 1)

visit_u8(value) == Ok(I32FromU8(value))

visit_u64(value) == Ok(AsI32(value))

\* deserialize_u8(DTypeVisitor) (lib.rs:233): the format hands the token to
\* the visitor method of its representation; visit_u16 and visit_u32 are not
\* overridden and forward to visit_u64; every other method is the default,
\* which reports an invalid type through the error channel.
DeDType(tok) ==
    CASE tok.t = "U8" -> visit_u8(tok.v)
      [] tok.t \in {"U16", "U32"} -> visit_u64(U64Of(tok.v))
      [] tok.t = "U64" -> visit_u64(tok.w)
      [] OTHER -> Err("FormatError")

\* ------------------------------------------------------------ Ser<Dim4>
\* Dim4 holds four u64 extents; get() (lib.rs:153-156) is the array of them.
SerDim4Swapped(d) ==
    Tuple(<< TokU64(d[2]), TokU64(d[1]), TokU64(d[3]), TokU64(d[4]) >>)

SerDim4(d) ==
    Tuple(<< TokU64(d[1]), TokU64(d[2]), TokU64(d[3]), TokU64(d[4]) >>)

\* ------------------------------------------------------------ serde primitives
IntToks == {"I16", "I32", "I64", "U8", "U16", "U32"}

FloatToks == {"F32", "F64"}

IntReps == {"I16", "I32", "I64", "U16", "U32", "U64"}

\* the values a representation holds; the 32 and 64 bit ranges exceed every
\* plain integer of the model, a u64 of 2^31 or more fits u64 only
InRange(rep, n) ==
    CASE rep = "I16" -> n >= -32768 /\ n <= 32767
      [] rep = "U16" -> n >= 0 /\ n <= 65535
      [] rep \in {"U32", "U64"} -> n >= 0
      [] rep \in {"I32", "I64"} -> TRUE

\* `v as f32`: 24 bits of mantissa, ties to even (exact below 2^24; the
\* model holds no float of 2^25 or more)
RoundF32(n) ==
    LET a == IF n < 0 THEN -n ELSE n
        r == IF a <= 16777216 \/ a % 2 = 0 THEN a
             ELSE IF ((a - 1) \div 2) % 2 = 0 THEN a - 1 ELSE a + 1
    IN IF n < 0 THEN -r ELSE r

\* T::deserialize for a primitive T: serde's visitor takes an integer token
\* of any width whose value fits T, a float takes integers and floats, a
\* bool takes a bool only; anything else is an invalid type or value.
FromToken(rep, tok) ==
    CASE rep = "Bool" ->
            IF tok.t = "Bool" THEN Ok(tok.b) ELSE Err("FormatError")
      [] rep = "U64" ->
            IF tok.t = "U64" THEN Ok(tok.w)
            ELSE IF tok.t \in IntToks /\ InRange(rep, tok.v) THEN Ok(U64Of(tok.v))
            ELSE Err("FormatError")
      [] rep \in IntReps \ {"U64"} ->
            IF tok.t = "U64"
            THEN IF IsSmall(tok.w) /\ InRange(rep, tok.w.lo)
                 THEN Ok(tok.w.lo) ELSE Err("FormatError")
            ELSE IF tok.t \in IntToks /\ InRange(rep, tok.v) THEN Ok(tok.v)
            ELSE Err("FormatError")
      [] rep = "F32" ->
            IF tok.t = "F32" THEN Ok(tok.v)
            ELSE IF tok.t = "F64" \/ tok.t \in IntToks THEN Ok(RoundF32(tok.v))
            ELSE IF tok.t = "U64" /\ IsSmall(tok.w) THEN Ok(RoundF32(tok.w.lo))
            ELSE Err("FormatError")
      [] rep = "F64" ->
            IF tok.t \in FloatToks \/ tok.t \in IntToks THEN Ok(tok.v)
            ELSE IF tok.t = "U64" /\ IsSmall(tok.w) THEN Ok(tok.w.lo)
            ELSE Err("FormatError")

\* T::serialize for a primitive T: one token of T's own representation
ToToken(rep, v) ==
    CASE rep = "U64" -> TokU64(v)
      [] rep = "Bool" -> TokBool(v)
      [] OTHER -> Tok(rep, v)

\* ------------------------------------------------------------ De<Dim4>
\* Dim4Visitor::visit_seq (lib.rs:175-185): four times
\* `visitor.next_element()?.expect("has element")`, in order: an element
\* that fails to decode returns the error, an absent one panics.
RECURSIVE Dim4Elements(_, _, _)
Dim4Elements(items, i, acc) ==
    IF i > 4 THEN Ok(acc)
    ELSE IF i > Len(items) THEN Panic("has element")
    ELSE LET e == FromToken("U64", items[i])
         IN IF e.st = "err" THEN e
            ELSE Dim4Elements(items, i + 1, Append(acc, e.val))

\* deserialize_tuple(4, Dim4Visitor) (lib.rs:188): a field that is no
\* tuple or sequence is an invalid type
DeDim4(field) ==
    IF IsCompound(field) THEN Dim4Elements(field.items, 1, << >>)
    ELSE Err("FormatError")

\* ------------------------------------------------------------ arrayfire::Array
\* The tensor engine, as the codec uses it: get_type(), dims(), elements(),
\* host() and Array::new.  A tensor is its element type, its four extents
\* and its flat buffer of elements() values.
RepOf(d) ==
    CASE d = "F32" -> "F32" [] d = "F64" -> "F64" [] d = "S16" -> "I16"
      [] d = "S32" -> "I32" [] d = "S64" -> "I64" [] d = "U16" -> "U16"
      [] d = "U32" -> "U32" [] d = "U64" -> "U64" [] d = "B8" -> "Bool"

\* the values of each element type that tensors of the model hold
ElemDomain(d) ==
    CASE d = "F32" -> {0, 1}
      [] d = "F64" -> {1, 16777217}
      [] d = "S16" -> {-1, 1}
      [] d \in {"S32", "S64"} -> {-1, 40000}
      [] d \in {"U16", "U32"} -> {1, 40000}
      [] d = "U64" -> {U64Of(1), [hi |-> 2, lo |-> 2]}
      [] d = "B8" -> {FALSE, TRUE}
      [] OTHER -> {0}

\* elements(): the product of the four extents
Elements(dims) == dims[1].lo * dims[2].lo * dims[3].lo * dims[4].lo

\* get_data::<T> (lib.rs:250-257): a vector of elements() slots that host()
\* fills with the whole buffer, in flat order
get_dataShort(array) ==
    [i \in 1..(Elements(array.dims) - 1) |-> array.data[i]]

get_data(array) ==
    [i \in 1..Elements(array.dims) |-> array.data[i]]

\* Vec<T>::serialize: one sequence, one token of T per element, in order
SerVec(rep, data) == SeqTok([i \in 1..Len(data) |-> ToToken(rep, data[i])])

\* Vec<T>::deserialize: a sequence whose items all decode as T
RECURSIVE VecElements(_, _, _, _)
VecElements(rep, items, i, acc) ==
    IF i > Len(items) THEN Ok(acc)
    ELSE LET e == FromToken(rep, items[i])
         IN IF e.st = "err" THEN e
            ELSE VecElements(rep, items, i + 1, Append(acc, e.val))

DeVec(rep, field) ==
    IF IsCompound(field) THEN VecElements(rep, field.items, 1, << >>)
    ELSE Err("FormatError")

\* Array::new::<T>(data.as_slice(), *dim) (lib.rs:299): the engine copies
\* elements() values from the slice without looking at its length.  A longer
\* slice loses its tail; a shorter one is read past its end, which is
\* undefined: the process dies or the tensor ends in whatever the memory held.
ArrayNew(d, data, dims) ==
    LET n == Elements(dims)
    IN IF Len(data) >= n
       THEN {Ok([dtype |-> d, dims |-> dims, data |-> SubSeq(data, 1, n)])}
       ELSE {Crash} \cup
            {Ok([dtype |-> d, dims |-> dims, data |-> data \o tail]) :
                tail \in [1..(n - Len(data)) -> ElemDomain(d)]}

\* `match dtype.0` of the decoder (lib.rs:302-313): the arm of the member;
\* every member without an arm of its own takes `_` and panics.  A value
\* that is no member of the enum makes the match undefined: any arm, the
\* panic or the death of the process.
MatchArmsFirst(bits) ==
    IF IsMember(bits) /\ MemberOf(bits) \in Supported THEN {"F32"} ELSE {"panic"}

MatchArms(bits) ==
    IF IsMember(bits)
    THEN IF MemberOf(bits) \in Supported THEN {MemberOf(bits)} ELSE {"panic"}
    ELSE Supported \cup {"panic", "crash"}

\* ------------------------------------------------------------ inputs
SeqsUpTo(S, n) == UNION {[1..k -> S] : k \in 0..n}

BigExtent == [hi |-> 2, lo |-> 0]

\* shapes handed to the Shape codec: any four u64 extents
Dim4Values == [1..4 -> {U64Of(n) : n \in 0..MaxExtent} \cup {BigExtent}]

\* shapes of tensors the engine holds
TensorShapes ==
    {d \in [1..4 -> {U64Of(n) : n \in 1..MaxExtent}] : Elements(d) <= MaxElems}

\* the tensors of element type d the engine holds
Tensors(d) ==
    UNION {{[dtype |-> d, dims |-> s, data |-> b] :
                b \in [1..Elements(s) -> ElemDomain(d)]} : s \in TensorShapes}

\* wire records a peer may send
ExtentToks == {TokU64(U64Of(n)) : n \in 1..MaxExtent}

Dim4Fields ==
    {Tuple(s) : s \in SeqsUpTo(ExtentToks \cup {Tok("I16", -1)}, 4)}
    \cup {TokStr("x")}

TagToks ==
    {Tok("U8", n) : n \in 0..12} \cup
    {Tok("U8", 200), Tok("U16", 2), TokU64(U64Of(2)), TokU64(U64Of(256)),
     TokU64([hi |-> 2, lo |-> 2]), TokU64([hi |-> 1, lo |-> 2]),
     TokStr("x")}

ShapeFields ==
    {Tuple(s) : s \in {q \in SeqsUpTo(ExtentToks, 4) :
                          Len(q) = 4 => Elements([i \in 1..4 |-> q[i].w]) <= MaxElems}}
    \cup {Tuple(<< Tok("I16", -1) >>), TokStr("x")}

DataFields ==
    {SeqTok(s) : s \in SeqsUpTo({Tok("F64", 16777217), Tok("I16", -1)}, MaxElems)}
    \cup {TokStr("x")}

ArrayRecords ==
    {<< >>} \cup {<< t >> : t \in TagToks}
    \cup {<< t, s >> : t \in TagToks, s \in ShapeFields}
    \cup {<< t, s, d >> : t \in TagToks, s \in ShapeFields, d \in DataFields}

\* ------------------------------------------------------------ state
VARIABLES
    pc,       \* position of the call in progress
    call,     \* the entry point called
    arg,      \* Some(its argument): the value to encode or the record to decode
    origin,   \* Some(the value a decoded record was encoded from), else None
    out,      \* the fields the serializer has been handed, in order
    ended,    \* tup.end() has been called
    next,     \* the fields of the record the decoder has taken
    dtype,    \* visit_seq's local dtype, Some(bits) once decoded
    dim,      \* visit_seq's local dim, Some(shape) once decoded
    readers,  \* the instances of seq.next_element::<Vec<T>> called, in order
    res       \* the result of the call

vars == << pc, call, arg, origin, out, ended, next, dtype, dim, readers, res >>

Init ==
    /\ pc = "idle"
    /\ call = "none"
    /\ arg = None
    /\ origin = None
    /\ out = << >>
    /\ ended = FALSE
    /\ next = 0
    /\ dtype = None
    /\ dim = None
    /\ readers = << >>
    /\ res = NoResult

\* a whole call of an entry point that runs in one step
Finish(c, a, o, fields, r) ==
    /\ pc' = "done"
    /\ call' = c
    /\ arg' = Some(a)
    /\ origin' = o
    /\ out' = fields
    /\ ended' = (fields # << >>)
    /\ res' = r
    /\ UNCHANGED << next, dtype, dim, readers >>

\* serialize(&Dim4) (lib.rs:60-66, 147-159)
SerializeDim4 ==
    /\ pc = "idle"
    /\ \E d \in Dim4Values : Finish("ser_dim4", d, None, << SerDim4(d) >>, Ok(None))

\* deserialize::<Dim4> (lib.rs:87-93, 161-190), of a record from a peer or
\* of the record just encoded
DeserializeDim4 ==
    \/ /\ pc = "idle"
       /\ \E f \in Dim4Fields : Finish("de_dim4", f, None, << >>, DeDim4(f))
    \/ /\ pc = "done" /\ call = "ser_dim4" /\ res.st = "ok"
       /\ Finish("de_dim4", out[1], arg, << >>, DeDim4(out[1]))

\* serialize(&DType) (lib.rs:192-200)
SerializeDType ==
    /\ pc = "idle"
    /\ \E d \in DTypes : Finish("ser_dtype", d, None, << SerDType(d) >>, Ok(None))

\* deserialize::<DType> (lib.rs:202-235)
DeserializeDType ==
    \/ /\ pc = "idle"
       /\ \E t \in TagToks : Finish("de_dtype", t, None, << >>, DeDType(t))
    \/ /\ pc = "done" /\ call = "ser_dtype" /\ res.st = "ok"
       /\ Finish("de_dtype", out[1], arg, << >>, DeDType(out[1]))

\* ------------------------------------------------------------ Ser<Array>
\* serialize(&Array): lib.rs:242-246, the tuple of 3 is opened
SerArrayBegin ==
    /\ pc = "idle"
    /\ \E d \in DTypes : \E a \in Tensors(d) :
          /\ pc' = "ser_tag"
          /\ call' = "ser_array"
          /\ arg' = Some(a)
    /\ UNCHANGED << origin, out, ended, next, dtype, dim, readers, res >>

\* lib.rs:247: tup.serialize_element(&Ser::new(&dtype))
SerArrayTag ==
    /\ pc = "ser_tag"
    /\ out' = Append(out, SerDType(arg[1].dtype))
    /\ pc' = "ser_dim"
    /\ UNCHANGED << call, arg, origin, ended, next, dtype, dim, readers, res >>

\* lib.rs:248: tup.serialize_element(&Ser::new(&dim))
SerArrayDim ==
    /\ pc = "ser_dim"
    /\ out' = Append(out, SerDim4(arg[1].dims))
    /\ pc' = "ser_data"
    /\ UNCHANGED << call, arg, origin, ended, next, dtype, dim, readers, res >>

\* lib.rs:259-270: the match on dtype
SerArrayData ==
    /\ pc = "ser_data"
    /\ IF arg[1].dtype \in Supported
       THEN /\ out' = Append(out, SerVec(RepOf(arg[1].dtype), get_data(arg[1])))
            /\ pc' = "ser_end"
            /\ res' = res
       ELSE /\ res' = Panic("unimplemented serialization for complex types!")
            /\ pc' = "done"
            /\ out' = out
    /\ UNCHANGED << call, arg, origin, ended, next, dtype, dim, readers >>

\* lib.rs:272: tup.end()
SerArrayEnd ==
    /\ pc = "ser_end"
    /\ ended' = TRUE
    /\ res' = Ok(None)
    /\ pc' = "done"
    /\ UNCHANGED << call, arg, origin, out, next, dtype, dim, readers >>

\* ------------------------------------------------------------ De<Array>
\* deserialize::<Array>: lib.rs:316, deserializer.deserialize_tuple(3, ..)
\* enters visit_seq with the record of a peer or the record just encoded
DeArrayStart(rec, o) ==
    /\ pc' = "de_tag"
    /\ call' = "de_array"
    /\ arg' = Some(rec)
    /\ origin' = o
    /\ out' = << >>
    /\ ended' = FALSE
    /\ res' = NoResult
    /\ UNCHANGED << next, dtype, dim, readers >>

DeArrayBegin ==
    \/ /\ pc = "idle"
       /\ \E rec \in ArrayRecords : DeArrayStart(rec, None)
    \/ /\ pc = "done" /\ call = "ser_array" /\ res.st = "ok"
       /\ DeArrayStart(out, arg)

\* the end of a call that stops in visit_seq
Stop(r) ==
    /\ res' = r
    /\ pc' = "done"

\* lib.rs:294: let dtype: De<DType> = seq.next_element()?.expect("has element")
DeArrayTag ==
    /\ pc = "de_tag"
    /\ IF Len(arg[1]) < 1
       THEN Stop(Panic("has element")) /\ UNCHANGED << next, dtype >>
       ELSE LET r == DeDType(arg[1][1])
            IN IF r.st = "ok"
               THEN /\ dtype' = Some(r.val)
                    /\ next' = 1
                    /\ pc' = "de_dim"
                    /\ res' = res
               ELSE Stop(r) /\ UNCHANGED << next, dtype >>
    /\ UNCHANGED << call, arg, origin, out, ended, dim, readers >>

\* lib.rs:295: let dim: De<Dim4> = seq.next_element()?.expect("has element")
DeArrayDim ==
    /\ pc = "de_dim"
    /\ IF Len(arg[1]) < 2
       THEN Stop(Panic("has element")) /\ UNCHANGED << next, dim >>
       ELSE LET r == DeDim4(arg[1][2])
            IN IF r.st = "ok"
               THEN /\ dim' = Some(r.val)
                    /\ next' = 2
                    /\ pc' = "de_data"
                    /\ res' = res
               ELSE Stop(r) /\ UNCHANGED << next, dim >>
    /\ UNCHANGED << call, arg, origin, out, ended, dtype, readers >>

\* lib.rs:297-313: the match on dtype.0; the arm calls
\* seq.next_element::<Vec<T>>()? and then get_array::<T>
DeArrayData ==
    /\ pc = "de_data"
    /\ \E arm \in MatchArms(dtype[1]) :
          IF arm = "panic"
          THEN /\ Stop(Panic("unimplemented deserialization for complex types!"))
               /\ UNCHANGED << next, readers >>
          ELSE IF arm = "crash"
          THEN Stop(Crash) /\ UNCHANGED << next, readers >>
          ELSE /\ readers' = Append(readers, RepOf(arm))
               /\ IF Len(arg[1]) < 3
                  THEN /\ Stop(Panic("has vector of elements"))
                       /\ next' = next
                  ELSE LET r == DeVec(RepOf(arm), arg[1][3])
                       IN IF r.st = "ok"
                          THEN /\ next' = 3
                               /\ \E a \in ArrayNew(arm, r.val, dim[1]) : Stop(a)
                          ELSE Stop(r) /\ next' = next
    /\ UNCHANGED << call, arg, origin, out, ended, dtype, dim >>

\* the call returns to its caller; nothing is kept between calls
Return ==
    /\ pc = "done"
    /\ pc' = "idle"
    /\ call' = "none"
    /\ arg' = None
    /\ origin' = None
    /\ out' = << >>
    /\ ended' = FALSE
    /\ next' = 0
    /\ dtype' = None
    /\ dim' = None
    /\ readers' = << >>
    /\ res' = NoResult

Next ==
    \/ SerializeDim4
    \/ DeserializeDim4
    \/ SerializeDType
    \/ DeserializeDType
    \/ SerArrayBegin
    \/ SerArrayTag
    \/ SerArrayDim
    \/ SerArrayData
    \/ SerArrayEnd
    \/ DeArrayBegin
    \/ DeArrayTag
    \/ DeArrayDim
    \/ DeArrayData
    \/ Return

Spec == Init /\ [][Next]_vars

\* ============================================================ properties
Done(c) == call = c /\ pc = "done"

\* the tags of the nine element types the codec has an arm for
SupportedTags == {Discriminant(d) : d \in Supported}

\* the decoder's dtype names a member of the enum, and that member is in S
DecodedIn(S) == Len(dtype) = 1 /\ IsMember(dtype[1]) /\ MemberOf(dtype[1]) \in S

\* C1: decoding the record produced by encoding a tensor of a supported
\* element type yields a tensor of the same element type, the same four
\* extents and the same flat element values in the same order.
ArrayRoundTrip ==
    (Done("de_array") /\ Len(origin) = 1) =>
        /\ res.st = "ok"
        /\ res.val.dtype = origin[1].dtype
        /\ res.val.dims = origin[1].dims
        /\ res.val.data = origin[1].data

\* a float64 tensor of shape [2,2,1,1] has gone through the encoder and
\* the decoder
ArrayRoundTripWitness ==
    /\ Done("de_array") /\ Len(origin) = 1
    /\ origin[1].dtype = "F64"
    /\ origin[1].dims = << U64Of(2), U64Of(2), U64Of(1), U64Of(1) >>
    /\ origin[1].data = << 1, 16777217, 16777217, 1 >>
    /\ res.st = "ok"
    /\ res.val.data = << 1, 16777217, 16777217, 1 >>

\* C2: decoding an element type from a wire tag that is not a supported tag
\* fails with UnknownElementTypeError, whether the tag arrives as 8 bits or
\* as a wider unsigned integer.
UnknownTagRejected ==
    (Done("de_dtype") /\ arg[1].t \in {"U8", "U16", "U32", "U64"}
        /\ IF arg[1].t = "U64"
           THEN ~(IsSmall(arg[1].w) /\ arg[1].w.lo \in SupportedTags)
           ELSE arg[1].v \notin SupportedTags)
    => (res.st = "err" /\ res.val = "UnknownElementTypeError")

\* C3: decoding a Tensor record whose element sequence has a length other
\* than the product of the four decoded extents fails with FormatError.
LengthMismatchRejected ==
    (Done("de_array") /\ Len(arg[1]) = 3 /\ Len(dim) = 1 /\ DecodedIn(Supported)
        /\ IsCompound(arg[1][3])
        /\ Len(arg[1][3].items) # Elements(dim[1]))
    => (res.st = "err" /\ res.val = "FormatError")

\* C4: a complex element type is rejected with UnsupportedTypeError returned
\* to the caller, by the encoder and by the decoder, never by a panic.
ComplexRejected ==
    /\ (Done("ser_array") /\ arg[1].dtype \in Complex)
          => (res.st = "err" /\ res.val = "UnsupportedTypeError")
    /\ (Done("de_array") /\ Len(dim) = 1 /\ DecodedIn(Complex))
          => (res.st = "err" /\ res.val = "UnsupportedTypeError")

\* C5 as stated: the tag of a supported element type is its place in the
\* table 0=float32, 1=float64, 2=int16, 3=int32, 4=int64, 5=uint16,
\* 6=uint32, 7=uint64, 8=boolean.
SpecTagTable == << "F32", "F64", "S16", "S32", "S64", "U16", "U32", "U64", "B8" >>

TagTableAsStated ==
    (Done("ser_dtype") /\ arg[1] \in Supported) =>
        /\ Len(out) = 1 /\ out[1].t = "U8"
        /\ out[1].v \in 0..8
        /\ SpecTagTable[out[1].v + 1] = arg[1]

\* C5 as amended: encoding an element type writes a single unsigned byte
\* given by the table 0=float32, 2=float64, 4=boolean, 5=int32, 6=uint32,
\* 8=int64, 9=uint64, 10=int16, 11=uint16, and decoding maps each of these
\* nine tags back to exactly that element type.
CodeTagTable ==
    << "F32", "C32", "F64", "C64", "B8", "S32", "U32", "U8", "S64", "U64", "S16", "U16" >>

AmendedTags == {0, 2, 4, 5, 6, 8, 9, 10, 11}

TagTableAmended ==
    /\ (Done("ser_dtype") /\ arg[1] \in Supported) =>
          /\ Len(out) = 1 /\ out[1].t = "U8"
          /\ out[1].v \in AmendedTags
          /\ CodeTagTable[out[1].v + 1] = arg[1]
    /\ (Done("de_dtype") /\ arg[1].t = "U8" /\ arg[1].v \in AmendedTags) =>
          /\ res.st = "ok"
          /\ IsMember(res.val)
          /\ MemberOf(res.val) = CodeTagTable[arg[1].v + 1]
          /\ MemberOf(res.val) \in Supported

\* the byte 10 sent by a peer has been decoded to int16
TagTableWitness ==
    /\ Done("de_dtype") /\ Len(origin) = 0
    /\ arg[1].t = "U8" /\ arg[1].v = 10
    /\ res.st = "ok" /\ MemberOf(res.val) = "S16"

\* C6: encoding a supported element type emits exactly one unsigned 8-bit
\* value, and decoding that value yields the same element type; float64
\* encodes to byte 2 and byte 2 decodes to float64.
DTypeRoundTrip ==
    /\ (Done("ser_dtype") /\ arg[1] \in Supported) =>
          /\ res.st = "ok"
          /\ Len(out) = 1 /\ out[1].t = "U8" /\ out[1].v \in 0..255
          /\ (arg[1] = "F64" => out[1].v = 2)
    /\ (Done("de_dtype") /\ Len(origin) = 1 /\ origin[1] \in Supported) =>
          /\ res.st = "ok"
          /\ IsMember(res.val)
          /\ MemberOf(res.val) = origin[1]
    /\ (Done("de_dtype") /\ arg[1].t = "U8" /\ arg[1].v = 2) =>
          /\ res.st = "ok"
          /\ IsMember(res.val)
          /\ MemberOf(res.val) = "F64"

\* float64 has been encoded to byte 2 and decoded from it
DTypeRoundTripWitness ==
    /\ Done("de_dtype") /\ Len(origin) = 1
    /\ origin[1] = "F64"
    /\ arg[1].t = "U8" /\ arg[1].v = 2
    /\ res.st = "ok" /\ MemberOf(res.val) = "F64"

\* C7: encoding a Shape emits a record of exactly four unsigned 64-bit
\* extents in the order axis0, axis1, axis2, axis3, and decoding that
\* record yields the same Shape (so distinct shapes have distinct records).
Dim4RoundTrip ==
    /\ Done("ser_dim4") =>
          /\ res.st = "ok"
          /\ Len(out) = 1 /\ out[1].t = "Tuple" /\ Len(out[1].items) = 4
          /\ \A i \in 1..4 : out[1].items[i].t = "U64" /\ out[1].items[i].w = arg[1][i]
    /\ (Done("de_dim4") /\ Len(origin) = 1) =>
          /\ res.st = "ok"
          /\ res.val = origin[1]

\* a shape of four different extents, one of them 2^32, has been encoded
\* and decoded
Dim4RoundTripWitness ==
    /\ Done("de_dim4") /\ Len(origin) = 1
    /\ origin[1] = << U64Of(1), U64Of(2), BigExtent, U64Of(0) >>
    /\ res.st = "ok"
    /\ res.val = << U64Of(1), U64Of(2), BigExtent, U64Of(0) >>

\* C8: decoding a record that is shorter than required returns FormatError
\* and never aborts: a Shape record of fewer than 4 elements, a Tensor
\* record without its element type, its shape or its element sequence.
ShortRecordFormatError ==
    /\ (Done("de_dim4") /\ IsCompound(arg[1]) /\ Len(arg[1].items) < 4)
          => (res.st = "err" /\ res.val = "FormatError")
    /\ (Done("de_array") /\ Len(arg[1]) < 3 /\ (Len(dim) = 1 => DecodedIn(Supported)))
          => (res.st = "err" /\ res.val = "FormatError")

\* C9: encoding a tensor of a supported element type emits exactly three
\* fields in this order: the tag, the four extents, one sequence of
\* element_count values in flat order in the representation of the element
\* type; nothing is emitted after the sequence.
ExpectedFields(a) ==
    << Tok("U8", Discriminant(a.dtype)),
       Tuple([i \in 1..4 |-> TokU64(a.dims[i])]),
       SeqTok([i \in 1..(a.dims[1].lo * a.dims[2].lo * a.dims[3].lo * a.dims[4].lo) |->
                  ToToken(RepOf(a.dtype), a.data[i])]) >>

ArrayEncoding ==
    (call = "ser_array" /\ arg[1].dtype \in Supported) =>
        /\ Len(out) <= 3
        /\ \A i \in 1..Len(out) : out[i] = ExpectedFields(arg[1])[i]
        /\ (Len(out) = 3 => \A i \in 1..Len(out[3].items) :
                               out[3].items[i].t = RepOf(arg[1].dtype))
        /\ (ended => Len(out) = 3)
        /\ (pc = "done" => (res.st = "ok" /\ ended /\ Len(out) = 3))

\* an int16 tensor of four elements has been encoded
ArrayEncodingWitness ==
    /\ Done("ser_array") /\ arg[1].dtype = "S16"
    /\ arg[1].data = << -1, 1, 1, -1 >>
    /\ res.st = "ok" /\ Len(out) = 3 /\ Len(out[3].items) = 4

\* C10: the decoder reads the tag, then the shape, then the element
\* sequence; the sequence is not read before the tag and the shape are
\* decoded, at most one sequence reader is called in a decode, exactly one
\* in a decode that returns a tensor, and it is the reader of the
\* representation of the decoded tag; when the tag or the shape fails to
\* decode no reader is called and no tensor is made.
DecodeOrder ==
    call = "de_array" =>
        /\ Len(readers) <= 1
        /\ (next >= 1 => Len(dtype) = 1)
        /\ (next >= 2 => Len(dim) = 1)
        /\ (next >= 3 => Len(readers) = 1)
        /\ (Len(dim) = 1 => Len(dtype) = 1)
        /\ (Len(readers) = 1 =>
              /\ Len(dim) = 1
              /\ DecodedIn(Supported)
              /\ readers[1] = RepOf(MemberOf(dtype[1])))
        /\ ((pc = "done" /\ Len(dim) = 0) => (readers = << >> /\ res.st # "ok"))
        /\ ((pc = "done" /\ res.st = "ok") => Len(readers) = 1)

====
